---- MODULE Spec2Model ----
(***************************************************************************)
(* Model of the generative-replay training program: the online trainer     *)
(* loop of main.py and the generative models of utils.py.                  *)
(*                                                                         *)
(* Spec   : the __main__ program (initial evaluation, training loop,       *)
(*          exception handling and metric flush).                          *)
(* SpecGR : one generative model object (RBM_GR or GenerativeReplay):      *)
(*          construction, normalise / descale of a transition, sample.     *)
(***************************************************************************)
EXTENDS Integers, Sequences, FiniteSets, TLC

\* ------------------------------------------------------------------ bounds
MaxT == 7                 \* --max_timesteps of the modelled runs
MaxEp == 2                \* env._max_episode_steps of the modelled environment
EvalFreq == 3             \* --eval_freq of the modelled runs
Capacities == {1, 2, 3}   \* --vae_batch_size values
StartSteps == {0, 3, 5}   \* --start_timesteps values
SaveFreqs == {1, 2, 3}    \* --gr_save_freq values

\* ------------------------------------------------------- program constants
InnerIters == 10          \* for i in range(10)
MiniBatch == 128          \* train_batch[:128]

VARIABLES
    pc,                \* position of the program
    args,              \* parsed command line: vae_batch_size, start_timesteps, gr_save_freq
    gr_dir,            \* TRUE iff ./models/GR exists (checkpoints can be written)
    t,                 \* loop variable of the training loop
    episode_timesteps,
    done,              \* done as reported by env.step on the current step
    done_bool,
    vae_batch_size,    \* the local of the loop body
    global_count,
    gr_index,
    train_batch,       \* sequence of rows
    i,                 \* inner optimisation iteration
    mini,              \* the mini-batch of the last inner iteration
    avg_r, reward_list, rbm_loss,     \* module-level metric series (rows are step indices)
    csv,               \* the three exported files, NoFile until written
    exc,               \* exception that left the loop / the program
    \* history of the run
    augmented,         \* the current training cycle drew synthetic rows
    cycles,            \* number of generative-model training cycles started
    reset_at,          \* steps t on which train_batch was reallocated
    saved_at,          \* cycle numbers at whose end a checkpoint was written
    sample_at,         \* steps t on which generative_replay.sample was called by the loop
    policy_at,         \* steps t on which policy.train received the model
    written            \* one record per write of line 207, in order: step, index, row replaced,
                       \* rows of the buffer, done field stored, done of env.step, episode step

loopvars == <<pc, args, gr_dir, t, episode_timesteps, done, done_bool, vae_batch_size,
              global_count, gr_index, train_batch, i, mini, avg_r, reward_list, rbm_loss,
              csv, exc, augmented, cycles, reset_at, saved_at, sample_at, policy_at, written>>

\* the generative model object under SpecGR
VARIABLES
    gm,                \* the constructed model, NoModel before construction
    x0,                \* the transition handed to normalise, as the caller built it
    x,                 \* the same tensor row, rescaled in place
    phase,             \* "none", "raw", "normalised", "descaled", "sampled", "IndexError"
    smp                \* the tuple returned by sample(batch_size)

grvars == <<gm, x0, x, phase, smp>>

vars == <<loopvars, grvars>>

\* a file of the working directory: absent, or holding the rows of a series
NoFile == [exists |-> FALSE, rows |-> << >>]
File(rows) == [exists |-> TRUE, rows |-> rows]

\* ------------------------------------------------------------------ rows
ZeroRow == [kind |-> "zero", done |-> 0, norm |-> 0]
RealRow(d) == [kind |-> "real", done |-> d, norm |-> 0]
\* a row produced by sample(): its content is drawn by the model
SynthRow == [kind |-> "synth", done |-> 0, norm |-> 0]

\* torch.zeros([n, 9])
Zeros(n) == [k \in 1..n |-> ZeroRow]

\* generative_replay.normalise(train_batch): every row is rescaled in place
NormaliseBatch(b) == [k \in 1..Len(b) |-> [b[k] EXCEPT !.norm = @ + 1]]

Perms(n) == {f \in [1..n -> 1..n] : \A a, b \in 1..n : f[a] = f[b] => a = b}

Min(a, b) == IF a <= b THEN a ELSE b

\* ------------------------------------------------------- decisions of the loop
\* the local survives from the previous step once it has been set
StaleBatchSize(cur) == IF cur = 0 THEN args.vae_batch_size ELSE cur

\* line 173: the local is re-read from args on every step
LocalBatchSize(cur) == args.vae_batch_size

\* the time-limit test admits the last step of the episode
DoneBoolInclusive(d, ep) == IF ep <= MaxEp THEN (IF d THEN 1 ELSE 0) ELSE 0

\* line 170
DoneBool(d, ep) == IF ep < MaxEp THEN (IF d THEN 1 ELSE 0) ELSE 0

\* the buffer test lets the index run one past the capacity
BufferFullLate(idx, cap) == idx > cap

\* line 175
BufferFull(idx, cap) == idx >= cap

\* the synthetic branch is not guarded by the exploration phase
AlwaysAugment == TRUE

\* line 177
ShouldAugment == t >= args.start_timesteps

\* as many synthetic rows as real rows
DoubledCount == args.vae_batch_size

\* lines 178, 180: int(args.vae_batch_size/2)
SyntheticCount == args.vae_batch_size \div 2

\* line 203
SaveDue == global_count % args.gr_save_freq = 0

\* line 216
ShouldTrainPolicy == t >= args.start_timesteps

\* lines 97-99: the directory is created only with --save_model and no ./models
MakeModelDirs(save_model, models_exists, gr_exists) ==
    IF save_model /\ ~models_exists THEN TRUE ELSE gr_exists

\* env.step under gym's TimeLimit wrapper: the episode is cut at _max_episode_steps
EnvDone(ep) == IF ep >= MaxEp THEN {TRUE} ELSE BOOLEAN


\* ================================================================== utils.py
\* Exact rational arithmetic for tensor cells: <<n, d>> in lowest terms, d > 0.
\* NaN stands for every non-finite cell (a division by zero and what follows it).
NaN == <<0, 0>>

Abs(n) == IF n < 0 THEN -n ELSE n

RECURSIVE GCD(_, _)
GCD(a, b) == IF b = 0 THEN a ELSE GCD(b, a % b)

Rat(n, d) ==
    IF d = 0 THEN NaN
    ELSE LET g == GCD(Abs(n), Abs(d))
             s == IF d < 0 THEN -1 ELSE 1
         IN  <<(s * n) \div g, (s * d) \div g>>

Q(n) == <<n, 1>>
IsNaN(a) == a[2] = 0
RAdd(a, b) == IF IsNaN(a) \/ IsNaN(b) THEN NaN ELSE Rat(a[1] * b[2] + b[1] * a[2], a[2] * b[2])
RSub(a, b) == IF IsNaN(a) \/ IsNaN(b) THEN NaN ELSE Rat(a[1] * b[2] - b[1] * a[2], a[2] * b[2])
RMul(a, b) == IF IsNaN(a) \/ IsNaN(b) THEN NaN ELSE Rat(a[1] * b[1], a[2] * b[2])
RDiv(a, b) == IF IsNaN(a) \/ IsNaN(b) \/ b[1] = 0 THEN NaN ELSE Rat(a[1] * b[2], a[2] * b[1])
RLess(a, b) == a[1] * b[2] < b[1] * a[2]

\* torch.round_: to the nearest integer, halves to the even one
RRound(a) ==
    IF IsNaN(a) THEN NaN
    ELSE LET fl == a[1] \div a[2]
             r2 == 2 * (a[1] - fl * a[2])
         IN  IF r2 < a[2] THEN Q(fl)
             ELSE IF r2 > a[2] THEN Q(fl + 1)
             ELSE IF fl % 2 = 0 THEN Q(fl) ELSE Q(fl + 1)

NVis == 9                 \* RBM_GR.__init__ default n_vis
Width == 9                \* columns of a transition row (train_batch is [*, 9])
MaxBatch == 3             \* largest batch_size handed to sample

NoModel == "NoModel"
Variants == {"RBM_GR", "GenerativeReplay"}

\* reward_low, reward_high of both constructors
RewardBounds == [low |-> Q(-20), high |-> Q(0)]

\* __init__ of either class: the arguments are stored, nothing is validated
NewModel(variant, action_shape, state_shape, action_low, action_high, state_low, state_high) ==
    [variant |-> variant,
     action_shape |-> action_shape,
     state_shape |-> state_shape,
     feature_size |-> action_shape + (2 * state_shape) + 2,
     action_low |-> action_low, action_high |-> action_high,
     state_low |-> state_low, state_high |-> state_high,
     reward_low |-> RewardBounds.low, reward_high |-> RewardBounds.high]

\* the bound a line of normalise / descale reads for column c (0-based);
\* column 8 has a line only in GenerativeReplay, with the literals 0.0 and 1.0
StateIndex(c) == IF c <= 2 THEN c + 1 ELSE c - 3
ColLow(m, c) ==
    IF c \in {0, 1, 2, 4, 5, 6} THEN m.state_low[StateIndex(c)]
    ELSE IF c = 3 THEN m.action_low
    ELSE IF c = 7 THEN m.reward_low
    ELSE Q(0)
ColHigh(m, c) ==
    IF c \in {0, 1, 2, 4, 5, 6} THEN m.state_high[StateIndex(c)]
    ELSE IF c = 3 THEN m.action_high
    ELSE IF c = 7 THEN m.reward_high
    ELSE Q(1)

\* columns that normalise / descale of the variant rescale, in statement order
ScaledCols(m) == IF m.variant = "RBM_GR" THEN 0..7 ELSE 0..8

\* a statement on column c raises IndexError when it reads state_low[k] past the
\* end of the bound vectors
Readable(m, c) == c \in {0, 1, 2, 4, 5, 6} => StateIndex(c) <= Len(m.state_low)

\* RBM_GR.normalise, one column: sub_(low).div_(high - low)
RBMNormaliseCol(m, c, v) == RDiv(RSub(v, ColLow(m, c)), RSub(ColHigh(m, c), ColLow(m, c)))

\* the offset is added before the range is multiplied in
RBMDescaleShiftFirst(m, c, v) == RMul(RAdd(v, ColLow(m, c)), RSub(ColHigh(m, c), ColLow(m, c)))

\* RBM_GR.descale, one column: mul_(high - low).add_(low)
RBMDescaleCol(m, c, v) == RAdd(RMul(v, RSub(ColHigh(m, c), ColLow(m, c))), ColLow(m, c))

\* GenerativeReplay.normalise, one column: sub_(low).div_(high - low).mul_(2.0).sub_(1.0)
GRNormaliseCol(m, c, v) ==
    RSub(RMul(RDiv(RSub(v, ColLow(m, c)), RSub(ColHigh(m, c), ColLow(m, c))), Q(2)), Q(1))

\* GenerativeReplay.descale, one column: add_(1.0).div_(2.0).mul_(high - low).add_(low);
\* column 8: add_(1.0).div_(2.0).round_()
GRDescaleCol(m, c, v) ==
    IF c = 8 THEN RRound(RDiv(RAdd(v, Q(1)), Q(2)))
    ELSE RAdd(RMul(RDiv(RAdd(v, Q(1)), Q(2)), RSub(ColHigh(m, c), ColLow(m, c))), ColLow(m, c))

NormaliseCol(m, c, v) ==
    IF m.variant = "RBM_GR" THEN RBMNormaliseCol(m, c, v) ELSE GRNormaliseCol(m, c, v)
DescaleCol(m, c, v) ==
    IF m.variant = "RBM_GR" THEN RBMDescaleCol(m, c, v) ELSE GRDescaleCol(m, c, v)

\* the statements run in column order and each rewrites its column in place; the
\* first unreadable bound stops the method, leaving the earlier columns rewritten
FirstBad(m, w) ==
    LET bad == {c \in ScaledCols(m) : ~Readable(m, c) \/ c >= w}
    IN  IF bad = {} THEN -1 ELSE CHOOSE c \in bad : \A e \in bad : c <= e

\* normalise(x) on one row of width Len(row)
Normalise(m, row) ==
    LET fb == FirstBad(m, Len(row))
    IN  [k \in 1..Len(row) |->
            IF (k - 1) \in ScaledCols(m) /\ (fb = -1 \/ k - 1 < fb)
            THEN NormaliseCol(m, k - 1, row[k]) ELSE row[k]]

\* descale(x) on one row of width Len(row)
Descale(m, row) ==
    LET fb == FirstBad(m, Len(row))
    IN  [k \in 1..Len(row) |->
            IF (k - 1) \in ScaledCols(m) /\ (fb = -1 \/ k - 1 < fb)
            THEN DescaleCol(m, k - 1, row[k]) ELSE row[k]]

\* width of the tensor sample() generates: hidden_to_visible gives n_vis columns,
\* the decoder gives feature_size columns
GeneratedWidth(m) == IF m.variant = "RBM_GR" THEN NVis ELSE m.feature_size

\* columns lo..hi-1 of a tensor of width w (a Python slice clips to the width)
Slice(lo, hi, w) == [k \in 1..(IF Min(hi, w) > lo THEN Min(hi, w) - lo ELSE 0) |-> lo + k - 1]

\* the return statement of sample(): result[:, 0:3], result[:, 3].unsqueeze(1),
\* result[:, 4:7], result[:, -2].unsqueeze(1), result[:, -1].unsqueeze(1);
\* each container records its rows and the generated columns it holds
SampleTuple(m, batch_size) ==
    LET w == GeneratedWidth(m)
    IN  IF FirstBad(m, w) # -1 \/ w <= 3
        THEN [batch_size |-> batch_size, error |-> TRUE, containers |-> << >>]
        ELSE [batch_size |-> batch_size, error |-> FALSE,
              containers |->
                [f \in 1..5 |->
                    [rows |-> batch_size,
                     cols |-> CASE f = 1 -> Slice(0, 3, w)
                                [] f = 2 -> <<3>>
                                [] f = 3 -> Slice(4, 7, w)
                                [] f = 4 -> <<w - 2>>
                                [] f = 5 -> <<w - 1>>]]]

\* ------------------------------------------------------------------ Init
\* the program at line 143: arguments parsed, directories made, model constructed
LoopInit ==
    /\ pc = "eval0"
    /\ args \in [vae_batch_size : Capacities, start_timesteps : StartSteps,
                 gr_save_freq : SaveFreqs]
    /\ \E save_model \in BOOLEAN, models_exists \in BOOLEAN, gr_exists \in BOOLEAN :
          /\ gr_exists => models_exists
          /\ gr_dir = MakeModelDirs(save_model, models_exists, gr_exists)
    /\ t = 0
    /\ episode_timesteps = 0
    /\ done = FALSE
    /\ done_bool = 0
    /\ vae_batch_size = 0
    /\ global_count = 0
    /\ gr_index = 0
    /\ train_batch = << >>
    /\ i = 0
    /\ mini = << >>
    /\ avg_r = << >>
    /\ reward_list = << >>
    /\ rbm_loss = << >>
    /\ csv = [avg_reward |-> NoFile, rewards |-> NoFile, rbm_loss |-> NoFile]
    /\ exc = "none"
    /\ augmented = FALSE
    /\ cycles = 0
    /\ reset_at = {}
    /\ saved_at = {}
    /\ sample_at = {}
    /\ policy_at = {}
    /\ written = << >>

\* no model object is exercised on its own while the program runs
ModelIdle ==
    /\ gm = NoModel
    /\ x0 = << >>
    /\ x = << >>
    /\ phase = "none"
    /\ smp = [batch_size |-> 0, error |-> FALSE, containers |-> << >>]

Init == LoopInit /\ ModelIdle

\* ------------------------------------------------------------------ actions
\* line 143: eval_policy(policy, env, seed, 0) appends [t+1, avg_reward] to avg_r
InitialEval ==
    /\ pc = "eval0"
    /\ avg_r' = Append(avg_r, 1)
    /\ pc' = "setup"
    /\ UNCHANGED <<grvars, args, gr_dir, t, episode_timesteps, done, done_bool, vae_batch_size,
                   global_count, gr_index, train_batch, i, mini, reward_list, rbm_loss,
                   csv, exc, augmented, cycles, reset_at, saved_at, sample_at, policy_at,
                   written>>

\* lines 145-154: the loop's locals, then the try block is entered
Setup ==
    /\ pc = "setup"
    /\ done' = FALSE
    /\ episode_timesteps' = 0
    /\ train_batch' = Zeros(args.vae_batch_size)
    /\ gr_index' = 0
    /\ global_count' = 0
    /\ t' = 0
    /\ pc' = "loop"
    /\ UNCHANGED <<grvars, args, gr_dir, done_bool, vae_batch_size, i, mini, avg_r, reward_list,
                   rbm_loss, csv, exc, augmented, cycles, reset_at, saved_at, sample_at,
                   policy_at, written>>

\* line 155, range exhausted: the try block ends normally
LoopExit ==
    /\ pc = "loop"
    /\ t >= MaxT
    /\ pc' = "finally"
    /\ UNCHANGED <<grvars, args, gr_dir, t, episode_timesteps, done, done_bool, vae_batch_size,
                   global_count, gr_index, train_batch, i, mini, avg_r, reward_list,
                   rbm_loss, csv, exc, augmented, cycles, reset_at, saved_at, sample_at,
                   policy_at, written>>

\* lines 157-176: act, step the environment, count, test the buffer
EnvStep ==
    /\ pc = "loop"
    /\ t < MaxT
    /\ episode_timesteps' = episode_timesteps + 1
    /\ \E d \in EnvDone(episode_timesteps + 1) :
          /\ done' = d
          /\ done_bool' = DoneBool(d, episode_timesteps + 1)
    /\ vae_batch_size' = LocalBatchSize(vae_batch_size)
    /\ global_count' = global_count + 1
    /\ IF BufferFull(gr_index, vae_batch_size')
         THEN /\ gr_index' = 0
              /\ cycles' = cycles + 1
              /\ pc' = "augment"
         ELSE /\ UNCHANGED <<gr_index, cycles>>
              /\ pc' = "write"
    /\ augmented' = FALSE
    /\ UNCHANGED <<grvars, args, gr_dir, t, train_batch, i, mini, avg_r, reward_list, rbm_loss,
                   csv, exc, reset_at, saved_at, sample_at, policy_at, written>>

\* lines 177-184: optional synthetic rows, then normalise the whole buffer
Augment ==
    /\ pc = "augment"
    /\ IF ShouldAugment
         THEN /\ vae_batch_size' = args.vae_batch_size \div 2
              /\ sample_at' = sample_at \cup {t}
              /\ augmented' = TRUE
              /\ train_batch' = NormaliseBatch(train_batch \o [k \in 1..SyntheticCount |-> SynthRow])
         ELSE /\ train_batch' = NormaliseBatch(train_batch)
              /\ UNCHANGED <<vae_batch_size, sample_at, augmented>>
    /\ i' = 0
    /\ pc' = "inner"
    /\ UNCHANGED <<grvars, args, gr_dir, t, episode_timesteps, done, done_bool, global_count,
                   gr_index, mini, avg_r, reward_list, rbm_loss, csv, exc, cycles,
                   reset_at, saved_at, policy_at, written>>

\* lines 188-198: one inner iteration: shuffle, train on the first 128 rows
InnerIteration ==
    /\ pc = "inner"
    /\ i < InnerIters
    /\ \E perm \in Perms(Len(train_batch)) :
          /\ train_batch' = [k \in 1..Len(train_batch) |-> train_batch[perm[k]]]
          /\ mini' = SubSeq(train_batch', 1, Min(MiniBatch, Len(train_batch)))
    /\ i' = i + 1
    /\ UNCHANGED <<grvars, pc, args, gr_dir, t, episode_timesteps, done, done_bool, vae_batch_size,
                   global_count, gr_index, avg_r, reward_list, rbm_loss, csv, exc,
                   augmented, cycles, reset_at, saved_at, sample_at, policy_at, written>>

\* lines 200-203: record the loss, test the save cadence
RecordLoss ==
    /\ pc = "inner"
    /\ i = InnerIters
    /\ rbm_loss' = Append(rbm_loss, t + 1)
    /\ pc' = IF SaveDue THEN "save" ELSE "reset"
    /\ UNCHANGED <<grvars, args, gr_dir, t, episode_timesteps, done, done_bool, vae_batch_size,
                   global_count, gr_index, train_batch, i, mini, avg_r, reward_list, csv,
                   exc, augmented, cycles, reset_at, saved_at, sample_at, policy_at,
                   written>>

\* lines 204-205: torch.save of the model and of the optimizer
SaveCheckpoint ==
    /\ pc = "save"
    /\ gr_dir
    /\ saved_at' = saved_at \cup {cycles}
    /\ pc' = "reset"
    /\ UNCHANGED <<grvars, args, gr_dir, t, episode_timesteps, done, done_bool, vae_batch_size,
                   global_count, gr_index, train_batch, i, mini, avg_r, reward_list,
                   rbm_loss, csv, exc, augmented, cycles, reset_at, sample_at, policy_at,
                   written>>

\* line 204 raises (no such directory): nothing catches it inside the loop
SaveFails ==
    /\ pc = "save"
    /\ ~gr_dir
    /\ exc' = "SaveError"
    /\ pc' = "finally"
    /\ UNCHANGED <<grvars, args, gr_dir, t, episode_timesteps, done, done_bool, vae_batch_size,
                   global_count, gr_index, train_batch, i, mini, avg_r, reward_list,
                   rbm_loss, csv, augmented, cycles, reset_at, saved_at, sample_at,
                   policy_at, written>>

\* line 206
ResetBuffer ==
    /\ pc = "reset"
    /\ train_batch' = Zeros(args.vae_batch_size)
    /\ reset_at' = reset_at \cup {t}
    /\ pc' = "write"
    /\ UNCHANGED <<grvars, args, gr_dir, t, episode_timesteps, done, done_bool, vae_batch_size,
                   global_count, gr_index, i, mini, avg_r, reward_list, rbm_loss, csv,
                   exc, augmented, cycles, saved_at, sample_at, policy_at, written>>

\* lines 207-213: store the transition at gr_index
WriteRow ==
    /\ pc = "write"
    /\ IF gr_index < Len(train_batch)
         THEN /\ train_batch' = [train_batch EXCEPT ![gr_index + 1] = RealRow(done_bool)]
              /\ written' = Append(written, [t |-> t, index |-> gr_index,
                                             row |-> train_batch[gr_index + 1],
                                             rows |-> Len(train_batch),
                                             done |-> done_bool, env_done |-> done,
                                             ep |-> episode_timesteps])
              /\ gr_index' = gr_index + 1
              /\ pc' = "policy"
              /\ UNCHANGED exc
         ELSE /\ exc' = "IndexError"
              /\ pc' = "finally"
              /\ UNCHANGED <<train_batch, written, gr_index>>
    /\ UNCHANGED <<grvars, args, gr_dir, t, episode_timesteps, done, done_bool, vae_batch_size,
                   global_count, i, mini, avg_r, reward_list, rbm_loss, csv, augmented,
                   cycles, reset_at, saved_at, sample_at, policy_at>>

\* lines 216-217
PolicyTrain ==
    /\ pc = "policy"
    /\ policy_at' = IF ShouldTrainPolicy THEN policy_at \cup {t} ELSE policy_at
    /\ pc' = "episode"
    /\ UNCHANGED <<grvars, args, gr_dir, t, episode_timesteps, done, done_bool, vae_batch_size,
                   global_count, gr_index, train_batch, i, mini, avg_r, reward_list,
                   rbm_loss, csv, exc, augmented, cycles, reset_at, saved_at, sample_at,
                   written>>

\* lines 219-233: end of episode, periodic evaluation, next t
EpisodeEnd ==
    /\ pc = "episode"
    /\ IF done
         THEN /\ reward_list' = Append(reward_list, t + 1)
              /\ done' = FALSE
              /\ episode_timesteps' = 0
         ELSE UNCHANGED <<reward_list, done, episode_timesteps>>
    /\ avg_r' = IF (t + 1) % EvalFreq = 0 THEN Append(avg_r, t + 1) ELSE avg_r
    /\ t' = t + 1
    /\ pc' = "loop"
    /\ UNCHANGED <<grvars, args, gr_dir, done_bool, vae_batch_size, global_count, gr_index,
                   train_batch, i, mini, rbm_loss, csv, exc, augmented, cycles, reset_at,
                   saved_at, sample_at, policy_at, written>>

InTry == pc \in {"loop", "augment", "inner", "save", "reset", "write", "policy", "episode"}

\* Ctrl-C inside the try block: line 235 catches it, the finally clause follows
InterruptInTry ==
    /\ InTry
    /\ exc' = "KeyboardInterrupt"
    /\ pc' = "finally"
    /\ UNCHANGED <<grvars, args, gr_dir, t, episode_timesteps, done, done_bool, vae_batch_size,
                   global_count, gr_index, train_batch, i, mini, avg_r, reward_list,
                   rbm_loss, csv, augmented, cycles, reset_at, saved_at, sample_at,
                   policy_at, written>>

\* Ctrl-C in lines 143-153, before the try of line 154: nothing catches it
InterruptBeforeTry ==
    /\ pc \in {"eval0", "setup"}
    /\ exc' = "KeyboardInterrupt"
    /\ pc' = "exited"
    /\ UNCHANGED <<grvars, args, gr_dir, t, episode_timesteps, done, done_bool, vae_batch_size,
                   global_count, gr_index, train_batch, i, mini, avg_r, reward_list,
                   rbm_loss, csv, augmented, cycles, reset_at, saved_at, sample_at,
                   policy_at, written>>

\* lines 237-240
Finally ==
    /\ pc = "finally"
    /\ csv' = [avg_reward |-> File(avg_r), rewards |-> File(reward_list),
               rbm_loss |-> File(rbm_loss)]
    /\ pc' = "exited"
    /\ UNCHANGED <<grvars, args, gr_dir, t, episode_timesteps, done, done_bool, vae_batch_size,
                   global_count, gr_index, train_batch, i, mini, avg_r, reward_list,
                   rbm_loss, exc, augmented, cycles, reset_at, saved_at, sample_at,
                   policy_at, written>>

Next ==
    \/ InitialEval
    \/ Setup
    \/ LoopExit
    \/ EnvStep
    \/ Augment
    \/ InnerIteration
    \/ RecordLoss
    \/ SaveCheckpoint
    \/ SaveFails
    \/ ResetBuffer
    \/ WriteRow
    \/ PolicyTrain
    \/ EpisodeEnd
    \/ InterruptInTry
    \/ InterruptBeforeTry
    \/ Finally

Spec == Init /\ [][Next]_vars

\* ------------------------------------------------------------------ claims of Spec
Capacity == args.vae_batch_size

\* C1: the accumulation buffer is reset on step t if and only if t is a positive
\* multiple of the capacity, in every cycle, whether or not an earlier cycle drew
\* synthetic rows: once the step's buffer test is behind it, t is a reset step
\* exactly when Capacity divides t > 0, and at every step boundary the resets so
\* far are the positive multiples below t, one per Capacity rows written.
C1_ResetEveryCapacity ==
    /\ pc \in {"write", "policy", "episode"} =>
          ((t \in reset_at) <=> (t > 0 /\ t % Capacity = 0))
    /\ pc = "loop" =>
          /\ reset_at = {s \in 1..(t - 1) : s % Capacity = 0}
          /\ Len(written) = t

\* a reset that follows a cycle with synthetic rows, capacity above 1
C1_Witness ==
    /\ pc = "loop"
    /\ Capacity >= 2
    /\ \E s \in sample_at : \E r \in reset_at : r > s
    /\ \E s \in reset_at : s \notin sample_at

\* C2: on a step t < start_timesteps neither sample() nor policy.train is called,
\* and a training cycle on such a step trains on rows that are not synthetic.
C2_NoSampleDuringExploration ==
    /\ \A s \in sample_at \cup policy_at : s >= args.start_timesteps
    /\ (pc \in {"inner", "save", "reset"} /\ t < args.start_timesteps) =>
          \A k \in 1..Len(train_batch) : train_batch[k].kind # "synth"

\* a cycle ran all its inner iterations during exploration
C2_Witness ==
    /\ pc = "inner"
    /\ i = InnerIters
    /\ t < args.start_timesteps
    /\ sample_at = {}

\* C3: the checkpoint is written at the end of training cycle n exactly when n is a
\* multiple of gr_save_freq.
C3_SaveEveryFreqCycles ==
    pc = "reset" => ((cycles \in saved_at) <=> (cycles % args.gr_save_freq = 0))

\* C4: whenever the process has terminated with a metric row accumulated, the three
\* files hold the three series as they were at exit.
C4_MetricsFlushedOnExit ==
    (pc = "exited" /\ Len(avg_r) + Len(reward_list) + Len(rbm_loss) > 0) =>
        csv = [avg_reward |-> File(avg_r), rewards |-> File(reward_list),
               rbm_loss |-> File(rbm_loss)]

\* C5: a failed checkpoint write never ends the training loop.
C5_SaveFailureNotFatal ==
    ~(exc = "SaveError" /\ pc \in {"finally", "exited"})

\* steps of the current episode at the k-th write, counted from the writes
EpisodeStepAt(k) ==
    LET ends == {j \in 1..(k - 1) : written[j].env_done}
        last == IF ends = {} THEN 0 ELSE CHOOSE j \in ends : \A e \in ends : e <= j
    IN  k - last

\* C9: the done field stored for a step is 1 only if the environment reported done
\* and the episode's step count, the current step included, is below the maximum
\* episode length; a step on which the episode reaches the maximum length stores 0;
\* the episode step count restarts after every environment-reported done.
C9_DoneOnlyBeforeTimeLimit ==
    /\ \A k \in 1..Len(written) :
          /\ written[k].ep = EpisodeStepAt(k)
          /\ written[k].done = 1 => (written[k].env_done /\ written[k].ep < MaxEp)
          /\ written[k].ep >= MaxEp => written[k].done = 0
    /\ pc = "policy" => train_batch[gr_index].done = written[Len(written)].done
    /\ (pc = "loop" /\ t > 0 /\ written[t].env_done) => episode_timesteps = 0

\* a later episode is cut at the maximum length after an earlier true terminal
C9_Witness ==
    \E k \in 1..Len(written) :
        /\ written[k].ep = MaxEp /\ written[k].env_done /\ written[k].done = 0
        /\ \E j \in 1..(k - 1) : written[j].done = 1

SynthRows(b) == {k \in 1..Len(b) : b[k].kind = "synth"}

\* C10 (as amended): a cycle on a step t >= start_timesteps trains on the capacity
\* real rows followed by floor(capacity/2) synthetic rows, all normalised once, and
\* each of the 10 inner iterations shuffles that buffer and takes its first 128
\* rows; a cycle on a step t < start_timesteps trains on exactly capacity rows.
C10_CombinedBuffer ==
    pc = "inner" =>
        /\ augmented <=> t >= args.start_timesteps
        /\ Len(train_batch) = Capacity + (IF augmented THEN Capacity \div 2 ELSE 0)
        /\ Cardinality(SynthRows(train_batch)) = Len(train_batch) - Capacity
        /\ \A k \in 1..Len(train_batch) : train_batch[k].norm = 1
        /\ i = 0 => SynthRows(train_batch) = (Capacity + 1)..Len(train_batch)
        /\ i > 0 => mini = SubSeq(train_batch, 1, Min(MiniBatch, Len(train_batch)))

\* the last inner iteration of a cycle with synthetic rows has run
C10_Witness ==
    /\ pc = "inner"
    /\ i = InnerIters
    /\ augmented
    /\ Capacity = 3
    /\ mini[1].kind = "synth"

\* C10 as stated: the synthetic rows double the buffer
C10_Doubled ==
    (pc = "inner" /\ augmented) => Len(train_batch) = 2 * Capacity

\* C11: at every step boundary the accumulation index is in 0..capacity and the
\* buffer has capacity rows; every write of a real transition found a buffer of
\* exactly capacity rows, an index in 0..capacity-1 and, at that index, a fresh
\* zero row (neither synthetic nor normalised), and no write raised; outside a
\* training cycle the buffer holds no synthetic and no normalised row; every row a
\* training step uses has been normalised exactly once.
C11_IndexAndBufferInRange ==
    /\ pc = "loop" => (gr_index \in 0..Capacity /\ Len(train_batch) = Capacity)
    /\ pc = "write" => (gr_index \in 0..(Capacity - 1) /\ Len(train_batch) = Capacity)
    /\ exc # "IndexError"
    /\ \A k \in 1..Len(written) :
          /\ written[k].rows = Capacity
          /\ written[k].index \in 0..(Capacity - 1)
          /\ written[k].index = (k - 1) % Capacity
          /\ written[k].row = ZeroRow
    /\ pc \in {"loop", "write", "policy", "episode"} =>
          \A k \in 1..Len(train_batch) :
              train_batch[k].kind # "synth" /\ train_batch[k].norm = 0
    /\ (pc = "inner" /\ i > 0) =>
          \A k \in 1..Len(mini) : mini[k].norm = 1

\* a real transition is written on the step of a cycle that drew synthetic rows,
\* after an earlier cycle that drew none
C11_Witness ==
    /\ pc = "policy"
    /\ Capacity >= 2
    /\ t \in reset_at /\ t \in sample_at
    /\ \E s \in reset_at : s \notin sample_at
    /\ written[Len(written)].t = t

\* ================================================================== SpecGR
\* constructor arguments: the bound vectors have state_shape entries, as main.py
\* takes them from the environment's observation space
Pendulum == [action_low |-> Q(-2), action_high |-> Q(2),
             state_low |-> <<Q(-1), Q(-1), Q(-8), Q(-3)>>,
             state_high |-> <<Q(1), Q(1), Q(8), Q(3)>>]
Skewed == [action_low |-> Q(1), action_high |-> Q(4),
           state_low |-> <<Q(0), Q(-3), Q(1), Q(-1)>>,
           state_high |-> <<Q(5), Q(-1), Q(4), Q(0)>>]
\* high = low in one state dimension
FlatState == [Pendulum EXCEPT !.state_low = <<Q(-1), Q(-1), Q(0), Q(-3)>>,
                              !.state_high = <<Q(1), Q(1), Q(0), Q(3)>>]
\* high < low for the action
InvertedAction == [Pendulum EXCEPT !.action_low = Q(2), !.action_high = Q(-2)]

BoundChoices == {Pendulum, Skewed, FlatState, InvertedAction}
ActionShapes == {1, 2}
StateShapes == {2, 3, 4}

\* raw transitions: every field at a fraction of a reference range
Fractions == {Q(0), Rat(1, 3), Q(1)}
StateFractions == {<<Q(0), Q(0), Q(0)>>, <<Q(1), Q(1), Q(1)>>,
                   <<Q(1), Rat(1, 2), Rat(1, 2)>>, <<Rat(1, 3), Rat(2, 3), Rat(1, 4)>>}
At(lo, hi, f) == RAdd(lo, RMul(f, RSub(hi, lo)))
RawRows ==
    {[k \in 1..Width |->
        IF k <= 3 THEN At(ref.state_low[k], ref.state_high[k], fs[k])
        ELSE IF k = 4 THEN At(ref.action_low, ref.action_high, fa)
        ELSE IF k <= 7 THEN At(ref.state_low[k - 4], ref.state_high[k - 4], fn[k - 4])
        ELSE IF k = 8 THEN At(RewardBounds.low, RewardBounds.high, fr)
        ELSE Q(d)] :
     ref \in {Pendulum, Skewed}, fs \in StateFractions, fa \in Fractions,
     fn \in StateFractions, fr \in Fractions, d \in {0, 1}}

LoopIdle ==
    /\ pc = "idle"
    /\ args = [vae_batch_size |-> 1, start_timesteps |-> 0, gr_save_freq |-> 1]
    /\ gr_dir = FALSE
    /\ t = 0
    /\ episode_timesteps = 0
    /\ done = FALSE
    /\ done_bool = 0
    /\ vae_batch_size = 0
    /\ global_count = 0
    /\ gr_index = 0
    /\ train_batch = << >>
    /\ i = 0
    /\ mini = << >>
    /\ avg_r = << >>
    /\ reward_list = << >>
    /\ rbm_loss = << >>
    /\ csv = [avg_reward |-> NoFile, rewards |-> NoFile, rbm_loss |-> NoFile]
    /\ exc = "none"
    /\ augmented = FALSE
    /\ cycles = 0
    /\ reset_at = {}
    /\ saved_at = {}
    /\ sample_at = {}
    /\ policy_at = {}
    /\ written = << >>

InitGR == LoopIdle /\ ModelIdle

\* RBM_GR(...) or GenerativeReplay(...)
Construct ==
    /\ phase = "none"
    /\ \E variant \in Variants, action_shape \in ActionShapes, state_shape \in StateShapes,
          b \in BoundChoices :
          gm' = NewModel(variant, action_shape, state_shape, b.action_low, b.action_high,
                         SubSeq(b.state_low, 1, state_shape),
                         SubSeq(b.state_high, 1, state_shape))
    /\ phase' = "built"
    /\ UNCHANGED <<loopvars, x0, x, smp>>

\* the caller builds a one-row batch
Feed ==
    /\ phase = "built"
    /\ \E row \in RawRows : x0' = row /\ x' = row
    /\ phase' = "raw"
    /\ UNCHANGED <<loopvars, gm, smp>>

\* gm.normalise(x)
NormaliseCall ==
    /\ phase = "raw"
    /\ x' = Normalise(gm, x)
    /\ phase' = IF FirstBad(gm, Len(x)) = -1 THEN "normalised" ELSE "IndexError"
    /\ UNCHANGED <<loopvars, gm, x0, smp>>

\* gm.descale(x) on the normalised batch
DescaleCall ==
    /\ phase = "normalised"
    /\ x' = Descale(gm, x)
    /\ phase' = "descaled"
    /\ UNCHANGED <<loopvars, gm, x0, smp>>

\* gm.sample(batch_size)
SampleCall ==
    /\ phase = "built"
    /\ \E batch_size \in 1..MaxBatch : smp' = SampleTuple(gm, batch_size)
    /\ phase' = "sampled"
    /\ UNCHANGED <<loopvars, gm, x0, x>>

NextGR ==
    \/ Construct
    \/ Feed
    \/ NormaliseCall
    \/ DescaleCall
    \/ SampleCall

SpecGR == InitGR /\ [][NextGR]_vars

\* ------------------------------------------------------------------ claims of SpecGR
RLeq(a, b) == ~RLess(b, a)

\* high > low in every configured field
BoundsOrdered(m) ==
    /\ \A k \in 1..Len(m.state_low) : RLess(m.state_low[k], m.state_high[k])
    /\ RLess(m.action_low, m.action_high)
    /\ RLess(m.reward_low, m.reward_high)

\* C6: a constructed model has high > low in every field and a feature width equal
\* to the model input width; any other configuration is rejected by the constructor.
C6_MalformedRejected ==
    phase # "none" => (BoundsOrdered(gm) /\ gm.feature_size = NVis /\ gm.feature_size = Width)

\* the transition lies inside the configured bounds, done is 0 or 1
InBounds(m, row) ==
    /\ \A c \in 0..7 : RLeq(ColLow(m, c), row[c + 1]) /\ RLeq(row[c + 1], ColHigh(m, c))
    /\ row[9] \in {Q(0), Q(1)}

Bottom(m) == IF m.variant = "RBM_GR" THEN Q(0) ELSE Q(-1)
Top == Q(1)

\* C7: for a transition inside bounds with high > low, descale(normalise(x)) gives
\* back every field of x, in both variants; normalise maps low to the bottom and
\* high to the top of the variant's range and every field into that range; the done
\* column is untouched by RBM_GR and becomes 2*d - 1 in GenerativeReplay.
C7_RoundTrip ==
    (phase \in {"normalised", "descaled"} /\ BoundsOrdered(gm) /\ InBounds(gm, x0)) =>
        /\ phase = "descaled" => x = x0
        /\ phase = "normalised" =>
              /\ \A c \in 0..7 :
                    /\ x0[c + 1] = ColLow(gm, c) => x[c + 1] = Bottom(gm)
                    /\ x0[c + 1] = ColHigh(gm, c) => x[c + 1] = Top
                    /\ RLeq(Bottom(gm), x[c + 1]) /\ RLeq(x[c + 1], Top)
              /\ x[9] = IF gm.variant = "RBM_GR" THEN x0[9]
                        ELSE RSub(RMul(Q(2), x0[9]), Q(1))

\* a transition with fields strictly inside and at the ends of their ranges and
\* done = 1 has gone through normalise and descale of GenerativeReplay
C7_Witness ==
    /\ phase = "descaled"
    /\ gm.variant = "GenerativeReplay"
    /\ BoundsOrdered(gm)
    /\ InBounds(gm, x0)
    /\ x0[9] = Q(1)
    /\ x0[1] = ColHigh(gm, 0)
    /\ RLess(ColLow(gm, 1), x0[2]) /\ RLess(x0[2], ColHigh(gm, 1))

Sum5(w) == w[1] + w[2] + w[3] + w[4] + w[5]

\* C8: sample(batch_size) returns five containers of batch_size rows and widths
\* 3, 1, 3, 1, 1 that hold the generated columns 0..8 in order, and the widths sum
\* to the configured feature_size.
C8_SamplePartition ==
    phase = "sampled" =>
        /\ ~smp.error
        /\ LET cs == smp.containers
               widths == [f \in 1..5 |-> Len(cs[f].cols)]
           IN  /\ \A f \in 1..5 : cs[f].rows = smp.batch_size
               /\ widths = <<3, 1, 3, 1, 1>>
               /\ cs[1].cols \o cs[2].cols \o cs[3].cols \o cs[4].cols \o cs[5].cols
                     = [k \in 1..9 |-> k - 1]
               /\ Sum5(widths) = gm.feature_size

====
